---- MODULE Spec2Model ----
(***************************************************************************)
(* NotificationService (server_fastapi/services/notification_service.py):  *)
(* the per-user in-memory notification store, its queries and its listener *)
(* dispatch, as a state machine.  One action per coroutine of the service; *)
(* a coroutine that never suspends is one atomic step, create_notification *)
(* is split at its only suspension point (the gather of the listeners),    *)
(* each gathered listener coroutine is a step of its own, and so is each   *)
(* create_notification a broadcast_notification gathers.                   *)
(***************************************************************************)
EXTENDS Integers, Sequences, FiniteSets, TLC

\* ------------------------------------------------------------- bounds
\* create_notification is called at most MaxId times (ids 1..MaxId)
MaxId == 3
\* the same, where listeners are registered and creates are in flight
MaxDispatchId == 2
\* the clock (datetime.now) runs over 0..MaxTime
MaxTime == 1
\* the same as MaxId, where sessions connect and leave
MaxSessionId == 1

\* ------------------------------------------------------------- values
\* Python's None where the other values are strings
None == "None"
\* Python's None where the other values are isoformat strings
NoTime == <<>>
\* a title is a sequence of words; None and "" (both falsy) are the empty one
NoTitle == <<>>

Users == {1, 2}
Callbacks == {"cb1"}

\* class NotificationPriority: member name -> position in the class, value
NotificationPriority == <<"LOW", "MEDIUM", "HIGH", "URGENT">>
PriorityValue(p) ==
  CASE p = "LOW" -> "low"
    [] p = "MEDIUM" -> "medium"
    [] p = "HIGH" -> "high"
    [] p = "URGENT" -> "urgent"

\* class NotificationCategory
NotificationCategory == <<"TRADE", "BOT", "MARKET", "SYSTEM", "PORTFOLIO", "RISK">>
CategoryValue(c) ==
  CASE c = "TRADE" -> "trade"
    [] c = "BOT" -> "bot"
    [] c = "MARKET" -> "market"
    [] c = "SYSTEM" -> "system"
    [] c = "PORTFOLIO" -> "portfolio"
    [] c = "RISK" -> "risk"

Range(s) == {s[i] : i \in 1..Len(s)}

\* datetime.isoformat(): an instant becomes a string (here a one-element
\* sequence holding the instant); datetime.fromisoformat() reads it back
isoformat(t) == <<t>>
fromisoformat(s) == s[1]
\* a datetime argument is <<t>> when it carries a UTC offset and <<t, "naive">>
\* when it does not; the string of a naive one has no offset either, and
\* what fromisoformat reads from it cannot be compared with the clock
Naive(s) == Len(s) = 2

VARIABLES
  notifications,            \* self.notifications: user_id -> list of dicts
  notification_id_counter,  \* self.notification_id_counter
  listeners,                \* self.listeners: user_id -> list of callbacks
  now,                      \* the clock read by datetime.now(timezone.utc)
  pending,                  \* create_notification calls suspended in gather,
                            \* each with the coroutines it gathered
  ret,                      \* the last call that returned: its arguments,
                            \* the clock when it ran, and its result
  issued,                   \* the ids line 41 handed out, in order (history)
  broadcast,                \* the broadcast_notification call in flight: its
                            \* arguments and the create_notification tasks
                            \* it gathered
  handler,                  \* routes/ws.py websocket_notifications: for each
                            \* websocket, where its handler stands and the
                            \* handler's local `user`
  active_connections        \* routes/ws.py manager.active_connections

vars == <<notifications, notification_id_counter, listeners, now, pending, ret,
          issued, broadcast, handler, active_connections>>

\* ------------------------------------------------------------- helpers
\* one list of everything, whoever owns it
RECURSIVE Concat(_, _)
Concat(d, keys) ==
  IF keys = {} THEN <<>>
  ELSE LET k == CHOOSE x \in keys : \A y \in keys : x <= y
       IN d[k] \o Concat(d, keys \ {k})
UserListAll(d, user_id) == Concat(d, DOMAIN d)

\* dict.get(user_id, [])
UserList(d, user_id) == IF user_id \in DOMAIN d THEN d[user_id] ELSE <<>>

\* NotificationService._generate_title
level_titles(level) ==
  CASE level = "info" -> "Information"
    [] level = "warning" -> "Warning"
    [] level = "error" -> "Error"
    [] level = "success" -> "Success"
    [] OTHER -> "Notification"

category_titles(category) ==
  CASE category = "TRADE" -> "Trade"
    [] category = "BOT" -> "Bot"
    [] category = "MARKET" -> "Market"
    [] category = "SYSTEM" -> "System"
    [] category = "PORTFOLIO" -> "Portfolio"
    [] category = "RISK" -> "Risk"
    [] OTHER -> "Notification"

\* a title that names the level first
_generate_title_level_first(level, category) ==
  <<level_titles(level), category_titles(category)>>

_generate_title(level, category) ==
  <<category_titles(category), level_titles(level)>>

\* NotificationService._cleanup_expired_notifications: the dict after it
Unexpired(n) ==
  n.expires_at = NoTime \/ fromisoformat(n.expires_at) > now

\* a prune that drops every notification that can expire
_cleanup_expiring_notifications(d, user_id) ==
  IF user_id \notin DOMAIN d THEN d
  ELSE [d EXCEPT ![user_id] = SelectSeq(@, LAMBDA n : n.expires_at = NoTime)]

_cleanup_expired_notifications(d, user_id) ==
  IF user_id \notin DOMAIN d THEN d
  ELSE [d EXCEPT ![user_id] = SelectSeq(@, Unexpired)]

\* line 106 raises TypeError when it compares a naive datetime with
\* datetime.now(timezone.utc); the assignment of line 104 then does not happen
CleanupError(d, user_id) ==
  IF \E n \in Range(UserList(d, user_id)) : n.expires_at # NoTime /\ Naive(n.expires_at)
    THEN "TypeError" ELSE None

\* the websockets that connect to /ws/notifications
Sockets == {"ws1", "ws2"}
\* the handler's local `user` while it is None (line 225)
NoUser == 0
\* no handler runs for the websocket: none was started, or it has finished;
\* registered records whether the handler got past line 251
NoHandler == [pc |-> "closed", user |-> NoUser, registered |-> FALSE]

\* no broadcast_notification has been called, or the last one is over
NoBroadcast == [call |-> <<>>, tasks |-> <<>>, returned |-> TRUE]

\* ------------------------------------------------------------- Init
Init ==
  /\ notifications = <<>>
  /\ notification_id_counter = 1
  /\ listeners = <<>>
  /\ now = 0
  /\ pending = {}
  /\ ret = [op |-> "init", user_id |-> 0, at |-> 0, args |-> <<>>, value |-> 0]
  /\ issued = <<>>
  /\ broadcast = NoBroadcast
  /\ handler = [websocket \in Sockets |-> NoHandler]
  /\ active_connections = <<>>

\* ------------------------------------------------------------- create
\* the dict built at lines 44-58; the expires_at argument is <<>> for None and
\* <<t>> for the datetime t
NewNotification(notification_id, user_id, message, level, title, category, priority, expires_at) ==
  [id |-> notification_id,
   user_id |-> user_id,
   title |-> IF title # NoTitle THEN title ELSE _generate_title(level, category),
   message |-> message,
   level |-> level,
   category |-> IF category # None THEN CategoryValue(category) ELSE "system",
   priority |-> PriorityValue(priority),
   timestamp |-> isoformat(now),
   read |-> FALSE,
   read_at |-> NoTime,
   expires_at |-> IF expires_at # NoTime
                    THEN isoformat(expires_at[1]) \o Tail(expires_at) ELSE NoTime]

\* lines 49-50 read category.value and priority.value: AttributeError for a
\* value that is not a member of the enum (title, message and level are
\* taken as they come)
BuildError(category, priority) ==
  IF category # None /\ category \notin Range(NotificationCategory)
    THEN "AttributeError"
  ELSE IF priority \notin Range(NotificationPriority) THEN "AttributeError"
  ELSE None

\* a counter that is read but not advanced
NextCounterStuck(counter) == counter

\* a counter that starts again at 1 after 2
NextCounterWrapping(counter) == IF counter >= 2 THEN 1 ELSE counter + 1

\* line 42
NextCounter(counter) == counter + 1

\* a dispatch that reaches the first registration only
GatheredFirst(cbs) ==
  [i \in 1..1 |-> [cb |-> cbs[i], state |-> "scheduled"]]

\* line 234: one coroutine per registration, in registration order, each
\* holding the notification; gather schedules them, none has run yet
Gathered(cbs) ==
  [i \in 1..Len(cbs) |-> [cb |-> cbs[i], state |-> "scheduled"]]

\* lines 41-73.  The counter advances first; building the dict (44-58) or the
\* prune (64) may raise, and the call ends there.  Everything up to the
\* append runs without suspension (_cleanup_expired_notifications has no
\* await that yields); the gather of _notify_listeners suspends the call when
\* there is a listener to run.
create_notification(user_id, message, level, title, category, priority, expires_at) ==
  /\ LET notification_id == notification_id_counter
         notification == NewNotification(notification_id, user_id, message, level,
                                         title, category, priority, expires_at)
         withKey == IF user_id \in DOMAIN notifications THEN notifications
                    ELSE notifications @@ (user_id :> <<>>)
         cleaned == _cleanup_expired_notifications(withKey, user_id)
         raised(error) == [op |-> "create raised", user_id |-> user_id, at |-> now,
                           args |-> <<>>, value |-> error]
     IN /\ notification_id_counter' = NextCounter(notification_id_counter)
        /\ issued' = Append(issued, notification_id)
        /\ IF BuildError(category, priority) # None
             THEN /\ notifications' = notifications
                  /\ pending' = pending
                  /\ ret' = raised(BuildError(category, priority))
           ELSE IF CleanupError(withKey, user_id) # None
             THEN /\ notifications' = withKey
                  /\ pending' = pending
                  /\ ret' = raised(CleanupError(withKey, user_id))
           ELSE /\ notifications' = [cleaned EXCEPT ![user_id] = Append(@, notification)]
                /\ IF user_id \in DOMAIN listeners /\ listeners[user_id] # <<>>
                     THEN /\ pending' = pending \cup
                               {[notification |-> notification,
                                 deliveries |-> Gathered(listeners[user_id])]}
                          /\ ret' = ret
                     ELSE /\ pending' = pending
                          /\ ret' = [op |-> "create", user_id |-> user_id, at |-> now,
                                     args |-> <<>>, value |-> notification]
  /\ UNCHANGED <<listeners, now, handler, active_connections>>

\* a coroutine that is finished: gather holds its result or its exception
Finished == {"returned", "raised"}

\* a dispatch that runs again a coroutine that raised

listener_run_retrying(task, i, outcome) ==
  /\ task \in pending
  /\ i \in 1..Len(task.deliveries)
  /\ \/ task.deliveries[i].state \in {"scheduled", "raised"}
     \/ task.deliveries[i].state = "suspended" /\ outcome \in Finished
  /\ pending' = (pending \ {task}) \cup
                  {[task EXCEPT !.deliveries[i].state = outcome]}
  /\ UNCHANGED <<notifications, notification_id_counter, listeners, now, ret, issued, broadcast,
               handler, active_connections>>

\* a gathered coroutine, the body of a listener (routes/ws.py lines 228-236),
\* runs: started by the event loop when it is scheduled, resumed when it is
\* suspended (in its send); it suspends, returns or raises
listener_run(task, i, outcome) ==
  /\ task \in pending
  /\ i \in 1..Len(task.deliveries)
  /\ \/ task.deliveries[i].state = "scheduled"
     \/ task.deliveries[i].state = "suspended" /\ outcome \in Finished
  /\ pending' = (pending \ {task}) \cup
                  {[task EXCEPT !.deliveries[i].state = outcome]}
  /\ UNCHANGED <<notifications, notification_id_counter, listeners, now, ret, issued, broadcast,
               handler, active_connections>>

\* a create_notification that, resumed, stores its notification again when
\* it finds it gone
_notify_listeners_done_restoring(task) ==
  /\ task \in pending
  /\ \A i \in 1..Len(task.deliveries) : task.deliveries[i].state \in Finished
  /\ pending' = pending \ {task}
  /\ notifications' =
       LET u == task.notification.user_id
       IN IF u \in DOMAIN notifications
               /\ \A n \in Range(notifications[u]) : n.id # task.notification.id
            THEN [notifications EXCEPT ![u] = Append(@, task.notification)]
            ELSE notifications
  /\ ret' = [op |-> "create", user_id |-> task.notification.user_id,
             at |-> now, args |-> <<>>, value |-> task.notification]
  /\ UNCHANGED <<notification_id_counter, listeners, now, issued, broadcast,
               handler, active_connections>>

\* a gather without return_exceptions: what a coroutine raised goes to the
\* caller of create_notification
_notify_listeners_raising(task) ==
  /\ task \in pending
  /\ \A i \in 1..Len(task.deliveries) : task.deliveries[i].state \in Finished
  /\ pending' = pending \ {task}
  /\ ret' = [op |-> IF \E i \in 1..Len(task.deliveries) :
                         task.deliveries[i].state = "raised"
                      THEN "create raised" ELSE "create",
             user_id |-> task.notification.user_id,
             at |-> now, args |-> <<>>, value |-> task.notification]
  /\ UNCHANGED <<notifications, notification_id_counter, listeners, now, issued, broadcast,
               handler, active_connections>>

\* line 235 completes (every coroutine is finished, return_exceptions=True
\* collects what they raised) and create_notification returns the dict at
\* line 73
_notify_listeners_done(task) ==
  /\ task \in pending
  /\ \A i \in 1..Len(task.deliveries) : task.deliveries[i].state \in Finished
  /\ pending' = pending \ {task}
  /\ ret' = [op |-> "create", user_id |-> task.notification.user_id,
             at |-> now, args |-> <<>>, value |-> task.notification]
  /\ UNCHANGED <<notifications, notification_id_counter, listeners, now, issued, broadcast,
               handler, active_connections>>

\* ------------------------------------------------------------- broadcast
\* NotificationService.broadcast_notification, lines 201-218: one
\* create_notification coroutine per entry of user_ids (211-216), gathered
\* (217): each is scheduled, none has run, and the call is suspended.  With
\* no entry there is nothing to wait for and the call returns.
broadcast_notification(user_ids, message, level, title, category, priority) ==
  /\ broadcast' =
       [call |-> <<message, level, title, category, priority>>,
        tasks |-> [i \in 1..Len(user_ids) |->
                     [user_id |-> user_ids[i], state |-> "scheduled", id |-> 0]],
        returned |-> user_ids = <<>>]
  /\ ret' = IF user_ids = <<>>
              THEN [op |-> "broadcast_notification", user_id |-> 0, at |-> now,
                    args |-> <<user_ids>>, value |-> None]
              ELSE ret
  /\ UNCHANGED <<notifications, notification_id_counter, listeners, now, pending, issued,
               handler, active_connections>>

\* a gather that drops the tasks not yet started when one has raised
BroadcastTasksCancelling(tasks, i, state, id) ==
  [j \in 1..Len(tasks) |->
     IF j = i THEN [tasks[j] EXCEPT !.state = state, !.id = id]
     ELSE IF state = "raised" /\ tasks[j].state = "scheduled"
       THEN [tasks[j] EXCEPT !.state = "cancelled"]
     ELSE tasks[j]]

\* the tasks of the gather once the i-th has run: the others are as they were
BroadcastTasks(tasks, i, state, id) ==
  [tasks EXCEPT ![i].state = state, ![i].id = id]

\* the event loop starts the i-th create_notification of the gather, with the
\* arguments lines 212-216 pass (no expires_at): it runs as any other
\* create_notification does
broadcast_create(i) ==
  /\ i \in 1..Len(broadcast.tasks)
  /\ broadcast.tasks[i].state = "scheduled"
  /\ LET a == broadcast.call
         user_id == broadcast.tasks[i].user_id
         fails == \/ BuildError(a[4], a[5]) # None
                  \/ CleanupError(notifications, user_id) # None
     IN /\ create_notification(user_id, a[1], a[2], a[3], a[4], a[5], NoTime)
        /\ broadcast' =
             [broadcast EXCEPT !.tasks =
                BroadcastTasks(@, i, IF fails THEN "raised" ELSE "ran",
                               notification_id_counter)]

\* line 217: gather (without return_exceptions) ends with the exception of
\* the first task that raised, as soon as it has raised, and otherwise with
\* the results when every task has returned; the tasks it leaves behind run on
broadcast_done ==
  /\ ~broadcast.returned
  /\ LET tasks == broadcast.tasks
         raisedOne == \E i \in 1..Len(tasks) : tasks[i].state = "raised"
         allReturned == \A i \in 1..Len(tasks) :
                          /\ tasks[i].state = "ran"
                          /\ \A t \in pending : t.notification.id # tasks[i].id
     IN /\ raisedOne \/ allReturned
        /\ ret' = [op |-> IF raisedOne THEN "broadcast raised"
                                       ELSE "broadcast_notification",
                   user_id |-> 0, at |-> now,
                   args |-> <<[i \in 1..Len(tasks) |-> tasks[i].user_id]>>,
                   value |-> None]
  /\ broadcast' = [broadcast EXCEPT !.returned = TRUE]
  /\ UNCHANGED <<notifications, notification_id_counter, listeners, now, pending, issued,
               handler, active_connections>>

\* ------------------------------------------------------------- mark read
\* the dict a suspended create_notification holds is the stored dict itself:
\* a mutation of the stored notification shows in it
Alias(tasks, d) ==
  LET stored == UNION {Range(d[u]) : u \in DOMAIN d}
      Same(n) == {m \in stored : m.id = n.id}
  IN {[t EXCEPT !.notification =
          IF Same(@) = {} THEN @ ELSE CHOOSE m \in Same(@) : TRUE] : t \in tasks}

\* a mark that stamps again what is already read
ShouldMarkAlways(n) == TRUE

\* line 145
ShouldMark(n) == ~n.read

\* a mark that sets the flag and forgets the timestamp
SetReadNoStamp(n) == [n EXCEPT !.read = TRUE]

\* lines 146-147 / 160-161
SetRead(n) == [n EXCEPT !.read = TRUE, !.read_at = isoformat(now)]

\* a mark that flips the flag of the notification with the id
MarkOneToggle(s, notification_id) ==
  [i \in 1..Len(s) |->
     IF s[i].id = notification_id
       THEN IF s[i].read THEN [s[i] EXCEPT !.read = FALSE, !.read_at = NoTime]
            ELSE SetRead(s[i])
       ELSE s[i]]

\* lines 143-150 on one user's list: the list afterwards (the loop returns at
\* the first notification with the id)
MarkOne(s, notification_id) ==
  LET hits == {i \in 1..Len(s) : s[i].id = notification_id}
      first == IF hits = {} THEN 0 ELSE CHOOSE i \in hits : \A j \in hits : i <= j
  IN [i \in 1..Len(s) |->
        IF i = first /\ ShouldMark(s[i]) THEN SetRead(s[i]) ELSE s[i]]

\* NotificationService.mark_as_read, lines 140-150
mark_as_read(user_id, notification_id) ==
  LET user_notifications == UserList(notifications, user_id)
      found == \E i \in 1..Len(user_notifications) :
                  user_notifications[i].id = notification_id
  IN /\ notifications' =
          IF found
            THEN [notifications EXCEPT ![user_id] = MarkOne(@, notification_id)]
            ELSE notifications
     /\ pending' = Alias(pending, notifications')
     /\ ret' = [op |-> "mark_as_read", user_id |-> user_id,
                at |-> now, args |-> <<notification_id>>, value |-> found]
     /\ UNCHANGED <<notification_id_counter, listeners, now, issued, broadcast,
               handler, active_connections>>

\* a bulk mark that does not test the read flag
MarkedAgain(n, category) ==
  category = None \/ n.category = CategoryValue(category)

\* lines 158-159: the notifications mark_all_as_read changes
Marked(n, category) ==
  /\ ~n.read
  /\ (category = None \/ n.category = CategoryValue(category))

\* NotificationService.mark_all_as_read, lines 152-165
mark_all_as_read(user_id, category) ==
  LET user_notifications == UserList(notifications, user_id)
      count == Cardinality({i \in 1..Len(user_notifications) :
                              Marked(user_notifications[i], category)})
  IN /\ notifications' =
          IF user_id \in DOMAIN notifications
            THEN [notifications EXCEPT ![user_id] =
                    [i \in 1..Len(@) |->
                       IF Marked(@[i], category) THEN SetRead(@[i]) ELSE @[i]]]
            ELSE notifications
     /\ pending' = Alias(pending, notifications')
     /\ ret' = [op |-> "mark_all_as_read", user_id |-> user_id,
                at |-> now, args |-> <<category>>, value |-> count]
     /\ UNCHANGED <<notification_id_counter, listeners, now, issued, broadcast,
               handler, active_connections>>

\* a delete that takes notification_id for a position in the list
delete_notification_at(user_id, notification_id) ==
  /\ LET l == UserList(notifications, user_id)
         hit == notification_id \in 1..Len(l)
     IN /\ notifications' =
             IF hit
               THEN [notifications EXCEPT ![user_id] =
                       SubSeq(l, 1, notification_id - 1)
                         \o SubSeq(l, notification_id + 1, Len(l))]
               ELSE notifications
        /\ ret' = [op |-> "delete_notification", user_id |-> user_id,
                   at |-> now, args |-> <<notification_id>>, value |-> hit]
  /\ UNCHANGED <<notification_id_counter, listeners, now, pending, issued, broadcast,
               handler, active_connections>>

\* NotificationService.delete_notification, lines 167-180
delete_notification(user_id, notification_id) ==
  /\ IF user_id \notin DOMAIN notifications
       THEN /\ notifications' = notifications
            /\ ret' = [op |-> "delete_notification", user_id |-> user_id,
                       at |-> now, args |-> <<notification_id>>, value |-> FALSE]
       ELSE LET original_length == Len(notifications[user_id])
                kept == SelectSeq(notifications[user_id],
                                  LAMBDA n : n.id # notification_id)
            IN /\ notifications' = [notifications EXCEPT ![user_id] = kept]
               /\ ret' = [op |-> "delete_notification", user_id |-> user_id,
                          at |-> now, args |-> <<notification_id>>,
                          value |-> Len(kept) < original_length]
  /\ UNCHANGED <<notification_id_counter, listeners, now, pending, issued, broadcast,
               handler, active_connections>>

\* ------------------------------------------------------------- queries
\* a priority_filter argument: None, or a list of NotificationPriority members
NoFilter == [given |-> FALSE, members |-> <<>>]
PriorityFilter(members) == [given |-> TRUE, members |-> members]
\* "if priority_filter:" is false for None and for the empty list
Truthy(priority_filter) == priority_filter.given /\ priority_filter.members # <<>>
priority_values(priority_filter) ==
  {PriorityValue(p) : p \in Range(priority_filter.members)}

\* a key that puts the oldest first
sort_key_oldest_first(n) ==
  <<0 - (CHOOSE i \in 0..3 : PriorityValue(NotificationPriority[i + 1]) = n.priority),
    fromisoformat(n.timestamp)>>

\* lines 131-136
priority_order(value) ==
  LET at == {i \in 1..Len(NotificationPriority) :
               PriorityValue(NotificationPriority[i]) = value}
  IN IF at = {} THEN 1 ELSE (CHOOSE i \in at : TRUE) - 1

sort_key(n) ==
  <<0 - priority_order(n.priority), 0 - fromisoformat(n.timestamp)>>

\* tuple comparison a < b of two sort keys
KeyLess(a, b) == a[1] < b[1] \/ (a[1] = b[1] /\ a[2] < b[2])

\* sorted(s, key=sort_key): stable, ascending
RECURSIVE Insert(_, _)
Insert(sorted, n) ==
  IF sorted = <<>> THEN <<n>>
  ELSE IF KeyLess(sort_key(n), sort_key(Head(sorted)))
         THEN <<n>> \o sorted
         ELSE <<Head(sorted)>> \o Insert(Tail(sorted), n)

RECURSIVE Sorted(_)
Sorted(s) ==
  IF s = <<>> THEN <<>>
  ELSE Insert(Sorted(SubSeq(s, 1, Len(s) - 1)), s[Len(s)])

\* s[:limit]
Slice(s, limit) ==
  IF limit >= 0
    THEN SubSeq(s, 1, IF limit < Len(s) THEN limit ELSE Len(s))
    ELSE SubSeq(s, 1, IF Len(s) + limit > 0 THEN Len(s) + limit ELSE 0)

\* an unread_only that keeps everything
KeepUnreadAll(n) == TRUE

\* lines 123, 125 and 128: the tests of the three list comprehensions
KeepCategory(n, category) == n.category = CategoryValue(category)
KeepUnread(n) == ~n.read
KeepPriority(n, priority_filter) == n.priority \in priority_values(priority_filter)

\* lines 118-138 over the dict d
RecentOf(d, user_id, limit, category, unread_only, priority_filter) ==
  LET user_notifications == UserList(d, user_id)
      f1 == IF category # None
              THEN SelectSeq(user_notifications,
                             LAMBDA n : KeepCategory(n, category))
              ELSE user_notifications
      f2 == IF unread_only THEN SelectSeq(f1, KeepUnread) ELSE f1
      f3 == IF Truthy(priority_filter)
              THEN SelectSeq(f2, LAMBDA n : KeepPriority(n, priority_filter))
              ELSE f2
  IN Slice(Sorted(f3), limit)

\* a count that looks at the category only
UnreadCountOfAnyPriority(d, user_id, category, priority_filter) ==
  LET unread == SelectSeq(UserList(d, user_id), KeepUnread)
  IN Len(IF category # None
           THEN SelectSeq(unread, LAMBDA n : KeepCategory(n, category))
           ELSE unread)

\* lines 189-199 over the dict d
UnreadCountOf(d, user_id, category, priority_filter) ==
  LET user_notifications == UserList(d, user_id)
      unread == SelectSeq(user_notifications, KeepUnread)
      u1 == IF category # None
              THEN SelectSeq(unread, LAMBDA n : KeepCategory(n, category))
              ELSE unread
      u2 == IF Truthy(priority_filter)
              THEN SelectSeq(u1, LAMBDA n : KeepPriority(n, priority_filter))
              ELSE u1
  IN Len(u2)

\* lines 239-261 over the dict d: a Python dict of counts holds only the keys
\* that were counted
CountBy(s, field) ==
  LET keys == {s[i][field] : i \in 1..Len(s)}
  IN [k \in keys |-> Cardinality({i \in 1..Len(s) : s[i][field] = k})]

\* statistics whose maps count the unread notifications only
StatsOfUnread(d, user_id) ==
  LET user_notifications == UserList(d, user_id)
      unread == SelectSeq(user_notifications, KeepUnread)
  IN [total |-> Len(user_notifications),
      unread |-> Len(unread),
      categories |-> CountBy(unread, "category"),
      priorities |-> CountBy(unread, "priority")]

StatsOf(d, user_id) ==
  LET user_notifications == UserList(d, user_id)
  IN [total |-> Len(user_notifications),
      unread |-> Len(SelectSeq(user_notifications, KeepUnread)),
      categories |-> CountBy(user_notifications, "category"),
      priorities |-> CountBy(user_notifications, "priority")]

\* a listing that reads the user's list with setdefault
get_recent_notifications_setdefault(user_id, limit, category, unread_only, priority_filter) ==
  /\ ret' = [op |-> "get_recent_notifications", user_id |-> user_id,
             at |-> now, args |-> <<limit, category, unread_only, priority_filter>>,
             value |-> RecentOf(notifications, user_id, limit, category,
                                unread_only, priority_filter)]
  /\ notifications' =
       IF user_id \in DOMAIN notifications THEN notifications
       ELSE notifications @@ (user_id :> <<>>)
  /\ UNCHANGED <<notification_id_counter, listeners, now, pending, issued, broadcast,
               handler, active_connections>>

\* NotificationService.get_recent_notifications, lines 109-138
get_recent_notifications(user_id, limit, category, unread_only, priority_filter) ==
  /\ ret' = [op |-> "get_recent_notifications", user_id |-> user_id,
             at |-> now, args |-> <<limit, category, unread_only, priority_filter>>,
             value |-> RecentOf(notifications, user_id, limit, category,
                                unread_only, priority_filter)]
  /\ UNCHANGED <<notifications, notification_id_counter, listeners, now, pending, issued, broadcast,
               handler, active_connections>>

\* NotificationService.get_unread_count, lines 182-199
get_unread_count(user_id, category, priority_filter) ==
  /\ ret' = [op |-> "get_unread_count", user_id |-> user_id,
             at |-> now, args |-> <<category, priority_filter>>,
             value |-> UnreadCountOf(notifications, user_id, category,
                                     priority_filter)]
  /\ UNCHANGED <<notifications, notification_id_counter, listeners, now, pending, issued, broadcast,
               handler, active_connections>>

\* NotificationService.get_notification_stats, lines 237-261
get_notification_stats(user_id) ==
  /\ ret' = [op |-> "get_notification_stats", user_id |-> user_id,
             at |-> now, args |-> <<>>, value |-> StatsOf(notifications, user_id)]
  /\ UNCHANGED <<notifications, notification_id_counter, listeners, now, pending, issued, broadcast,
               handler, active_connections>>

\* ------------------------------------------------------------- listeners
\* NotificationService.add_listener, lines 220-224
add_listener(user_id, callback) ==
  /\ listeners' =
       IF user_id \in DOMAIN listeners
         THEN [listeners EXCEPT ![user_id] = Append(@, callback)]
         ELSE listeners @@ (user_id :> <<callback>>)
  /\ ret' = [op |-> "add_listener", user_id |-> user_id, at |-> now, args |-> <<callback>>,
             value |-> None]
  /\ UNCHANGED <<notifications, notification_id_counter, now, pending, issued, broadcast>>

\* a removal that does not look at the user
remove_listener_everywhere(user_id, callback) ==
  /\ listeners' =
       [u \in DOMAIN listeners |-> SelectSeq(listeners[u], LAMBDA cb : cb # callback)]
  /\ ret' = [op |-> "remove_listener", user_id |-> user_id, at |-> now,
             args |-> <<callback>>, value |-> None]
  /\ UNCHANGED <<notifications, notification_id_counter, now, pending, issued, broadcast>>

\* a removal that also withdraws the coroutines of the callback from the
\* dispatches in flight
remove_listener_cancelling(user_id, callback) ==
  /\ listeners' =
       IF user_id \in DOMAIN listeners
         THEN [listeners EXCEPT ![user_id] = SelectSeq(@, LAMBDA cb : cb # callback)]
         ELSE listeners
  /\ pending' =
       {[t EXCEPT !.deliveries = SelectSeq(@, LAMBDA d : d.cb # callback)] :
          t \in pending}
  /\ ret' = [op |-> "remove_listener", user_id |-> user_id,
             at |-> now, args |-> <<callback>>, value |-> None]
  /\ UNCHANGED <<notifications, notification_id_counter, now, issued, broadcast>>

\* a removal that drops the user's whole list
remove_listener_all(user_id, callback) ==
  /\ listeners' =
       IF user_id \in DOMAIN listeners
         THEN [listeners EXCEPT ![user_id] = <<>>]
         ELSE listeners
  /\ ret' = [op |-> "remove_listener", user_id |-> user_id,
             at |-> now, args |-> <<callback>>, value |-> None]
  /\ UNCHANGED <<notifications, notification_id_counter, now, pending, issued, broadcast>>

\* NotificationService.remove_listener, lines 226-229
remove_listener(user_id, callback) ==
  /\ listeners' =
       IF user_id \in DOMAIN listeners
         THEN [listeners EXCEPT ![user_id] = SelectSeq(@, LAMBDA cb : cb # callback)]
         ELSE listeners
  /\ ret' = [op |-> "remove_listener", user_id |-> user_id,
             at |-> now, args |-> <<callback>>, value |-> None]
  /\ UNCHANGED <<notifications, notification_id_counter, now, pending, issued, broadcast>>

\* ------------------------------------------------------------- the calls made
\* A set of calls: the arguments the callers of the service draw from.
\* Every specification below runs every operation of the service; they differ
\* in the arguments, so that each explores one part of the input space in depth.
BaseCalls ==
  [users |-> {1}, messages |-> {"m"}, levels |-> {"info"}, titles |-> {NoTitle},
   categories |-> {None}, priorities |-> {"MEDIUM"}, expiries |-> {NoTime},
   readCategories |-> {None}, unreadOnly |-> {FALSE}, filters |-> {NoFilter},
   limits |-> {MaxId}, callbacks |-> {"cb1"}, sessionUsers |-> {1},
   outcomes |-> {"returned"}, userIds |-> {<<1>>},
   maxId |-> MaxId, maxTime |-> 0]

\* a session registers its own callback once (routes/ws.py line 251)
Registered(callback) ==
  \E u \in DOMAIN listeners : callback \in Range(listeners[u])

\* the clock advances between any two steps, or does not
Tick(c) ==
  /\ now < c.maxTime
  /\ now' = now + 1
  /\ UNCHANGED <<notifications, notification_id_counter, listeners, pending, ret, issued, broadcast,
               handler, active_connections>>

\* the calls made on behalf of one user
CreateFor(c, user_id) ==
  \E message \in c.messages, level \in c.levels, title \in c.titles,
     category \in c.categories, priority \in c.priorities,
     expires_at \in c.expiries :
    /\ notification_id_counter <= c.maxId
    /\ create_notification(user_id, message, level, title, category, priority,
                           expires_at)
    /\ UNCHANGED broadcast

NotifyDoneFor(c, user_id) ==
  \E task \in pending :
    task.notification.user_id = user_id /\ _notify_listeners_done(task)

ListenerRunFor(c, user_id) ==
  \E task \in pending, outcome \in c.outcomes :
    /\ task.notification.user_id = user_id
    /\ \E i \in 1..Len(task.deliveries) : listener_run(task, i, outcome)

MarkAsReadFor(c, user_id) == \E id \in 1..c.maxId : mark_as_read(user_id, id)

MarkAllAsReadFor(c, user_id) ==
  \E category \in c.readCategories : mark_all_as_read(user_id, category)

DeleteFor(c, user_id) == \E id \in 1..c.maxId : delete_notification(user_id, id)

GetRecentFor(c, user_id) ==
  \E limit \in c.limits, category \in c.readCategories,
     unread_only \in c.unreadOnly, priority_filter \in c.filters :
    get_recent_notifications(user_id, limit, category, unread_only, priority_filter)

GetUnreadCountFor(c, user_id) ==
  \E category \in c.readCategories, priority_filter \in c.filters :
    get_unread_count(user_id, category, priority_filter)

AddListenerFor(c, user_id) ==
  \E callback \in c.callbacks :
    /\ ~Registered(callback)
    /\ add_listener(user_id, callback)
    /\ UNCHANGED <<handler, active_connections>>

RemoveListenerFor(c, user_id) ==
  \E callback \in c.callbacks :
    /\ remove_listener(user_id, callback)
    /\ UNCHANGED <<handler, active_connections>>

\* a producer broadcasts when its last broadcast is over
Broadcast(c) ==
  \E user_ids \in c.userIds, message \in c.messages, level \in c.levels,
     title \in c.titles, category \in c.categories, priority \in c.priorities :
    /\ broadcast.returned
    /\ \A i \in 1..Len(broadcast.tasks) : broadcast.tasks[i].state # "scheduled"
    /\ notification_id_counter + Len(user_ids) - 1 <= c.maxId
    /\ broadcast_notification(user_ids, message, level, title, category, priority)

BroadcastCreate == \E i \in 1..Len(broadcast.tasks) : broadcast_create(i)

\* any call made on behalf of user_id
CallFor(c, user_id) ==
  \/ CreateFor(c, user_id)
  \/ ListenerRunFor(c, user_id)
  \/ NotifyDoneFor(c, user_id)
  \/ MarkAsReadFor(c, user_id)
  \/ MarkAllAsReadFor(c, user_id)
  \/ DeleteFor(c, user_id)
  \/ GetRecentFor(c, user_id)
  \/ GetUnreadCountFor(c, user_id)
  \/ get_notification_stats(user_id)
  \/ AddListenerFor(c, user_id)
  \/ RemoveListenerFor(c, user_id)

\* any call made for user_id that writes to the user's list
WriteFor(c, user_id) ==
  \/ CreateFor(c, user_id)
  \/ MarkAsReadFor(c, user_id)
  \/ MarkAllAsReadFor(c, user_id)
  \/ DeleteFor(c, user_id)

Create(c) == \E user_id \in c.users : CreateFor(c, user_id)
ListenerRun(c) == \E user_id \in c.users : ListenerRunFor(c, user_id)
NotifyDone(c) == \E user_id \in c.users : NotifyDoneFor(c, user_id)
MarkAsRead(c) == \E user_id \in c.users : MarkAsReadFor(c, user_id)
MarkAllAsRead(c) == \E user_id \in c.users : MarkAllAsReadFor(c, user_id)
Delete(c) == \E user_id \in c.users : DeleteFor(c, user_id)
GetRecent(c) == \E user_id \in c.users : GetRecentFor(c, user_id)
GetUnreadCount(c) == \E user_id \in c.users : GetUnreadCountFor(c, user_id)
GetStats(c) == \E user_id \in c.users : get_notification_stats(user_id)
AddListener(c) == \E user_id \in c.sessionUsers : AddListenerFor(c, user_id)
RemoveListener(c) == \E user_id \in c.users : RemoveListenerFor(c, user_id)

\* ------------------------------------------------------------- sessions
\* routes/ws.py: ConnectionManager.connect (after accept) and .disconnect
connect(conns, websocket, user_id) ==
  Append(conns, [websocket |-> websocket, user_id |-> user_id])
disconnect(conns, websocket) ==
  SelectSeq(conns, LAMBDA conn : conn.websocket # websocket)

\* the closure notification_listener of the handler of a websocket (228-236)
notification_listener(websocket) == IF websocket = "ws1" THEN "cb1" ELSE "cb2"

\* what the handler does not hold
StoreVars == <<notifications, notification_id_counter, listeners, now, pending,
               ret, issued, broadcast>>

\* the handler of the websocket does not run: none was started, or the last
\* one ended by a return, a WebSocketDisconnect or another exception
HandlerOver == {"closed", "returned", "disconnected", "failed"}

\* a finally clause that only leaves the manager
websocket_finally_manager_only(websocket, path) ==
  /\ UNCHANGED StoreVars
  /\ active_connections' = disconnect(active_connections, websocket)
  /\ handler' = [handler EXCEPT ![websocket].pc = path]

\* lines 350-354, the finally clause, and the end of the handler: nothing
\* in it suspends; path is the way the handler came to it
websocket_finally(websocket, path) ==
  /\ IF handler[websocket].user # NoUser
       THEN remove_listener(handler[websocket].user,
                            notification_listener(websocket))
       ELSE UNCHANGED StoreVars
  /\ active_connections' = disconnect(active_connections, websocket)
  /\ handler' = [handler EXCEPT ![websocket].pc = path]

\* a client connects: websocket_notifications starts (223-225) and waits for
\* the first message (line 240).  A websocket that was closed stands for a
\* new one when it connects again.
websocket_notifications(websocket) ==
  /\ handler[websocket].pc \in HandlerOver
  /\ handler' = [handler EXCEPT ![websocket] =
                   [pc |-> "auth", user |-> NoUser, registered |-> FALSE]]
  /\ UNCHANGED <<StoreVars, active_connections>>

\* the first message arrives (240-248): it is no auth message and the handler
\* answers and closes (241-244), or its token is rejected and
\* get_current_user_ws raises (247), or the token names user_id and the
\* handler goes on to accept the websocket (248, line 27)
websocket_auth(websocket, message, user_id) ==
  /\ handler[websocket].pc = "auth"
  /\ handler' =
       CASE message = "other" -> [handler EXCEPT ![websocket].pc = "reject"]
         [] message = "bad token" -> [handler EXCEPT ![websocket].pc = "error"]
         [] message = "auth" ->
              [handler EXCEPT ![websocket].pc = "accept",
                              ![websocket].user = user_id]
  /\ UNCHANGED <<StoreVars, active_connections>>

\* the answer to a message that is no auth message was sent and the
\* websocket closed: return (line 244), through the finally clause
websocket_reject(websocket) ==
  /\ handler[websocket].pc = "reject"
  /\ websocket_finally(websocket, "returned")

\* accept returned: the manager records the connection (28-32) and the
\* handler registers its listener (251), then sends and receives (253-338)
websocket_connect(websocket) ==
  /\ handler[websocket].pc = "accept"
  /\ active_connections' =
       connect(active_connections, websocket, handler[websocket].user)
  /\ add_listener(handler[websocket].user, notification_listener(websocket))
  /\ handler' = [handler EXCEPT ![websocket].pc = "open",
                                ![websocket].registered = TRUE]

\* what the handler awaits raises: WebSocketDisconnect (340-341, then the
\* finally clause), or another exception (342-344), after which the handler
\* tries to send the error (345-346)
websocket_raise(websocket, exception) ==
  /\ handler[websocket].pc \in {"auth", "reject", "accept", "open"}
  /\ IF exception = "WebSocketDisconnect"
       THEN websocket_finally(websocket, "disconnected")
       ELSE /\ handler' = [handler EXCEPT ![websocket].pc = "error"]
            /\ UNCHANGED <<StoreVars, active_connections>>

\* the send of line 346 returned or raised (347-348): the finally clause
websocket_error_sent(websocket) ==
  /\ handler[websocket].pc = "error"
  /\ websocket_finally(websocket, "failed")

\* the handler serves a request of its client: the count it sends after
\* every change (270, 289, 308, 332), mark_read (283) or delete (326)
websocket_serve(c, websocket) ==
  /\ handler[websocket].pc = "open"
  /\ LET user_id == handler[websocket].user
     IN \/ GetUnreadCountFor(c, user_id)
        \/ MarkAsReadFor(c, user_id)
        \/ DeleteFor(c, user_id)

SessionStart == \E websocket \in Sockets : websocket_notifications(websocket)
SessionAuth(c) ==
  \E websocket \in Sockets, message \in {"other", "bad token", "auth"},
     user_id \in c.sessionUsers :
    websocket_auth(websocket, message, user_id)
SessionReject == \E websocket \in Sockets : websocket_reject(websocket)
SessionConnect == \E websocket \in Sockets : websocket_connect(websocket)
SessionRaise ==
  \E websocket \in Sockets, exception \in {"WebSocketDisconnect", "Exception"} :
    websocket_raise(websocket, exception)
SessionErrorSent == \E websocket \in Sockets : websocket_error_sent(websocket)
SessionServe(c) == \E websocket \in Sockets : websocket_serve(c, websocket)

\* the service with no session connected: no listener is ever registered,
\* so that no create_notification suspends
StoreNext(c) ==
  \/ Tick(c)
  \/ Create(c)
  \/ MarkAsRead(c)
  \/ MarkAllAsRead(c)
  \/ Delete(c)
  \/ GetRecent(c)
  \/ GetUnreadCount(c)
  \/ GetStats(c)

\* the same within one clock reading
QueryNext(c) ==
  \/ Create(c)
  \/ MarkAsRead(c)
  \/ MarkAllAsRead(c)
  \/ Delete(c)
  \/ GetRecent(c)
  \/ GetUnreadCount(c)
  \/ GetStats(c)

\* the service with sessions connecting and leaving, within one clock reading
DispatchNext(c) ==
  \/ Create(c)
  \/ ListenerRun(c)
  \/ NotifyDone(c)
  \/ MarkAsRead(c)
  \/ MarkAllAsRead(c)
  \/ Delete(c)
  \/ GetRecent(c)
  \/ GetUnreadCount(c)
  \/ GetStats(c)
  \/ AddListener(c)
  \/ RemoveListener(c)

\* sessions connecting and leaving while notifications are created, listed
\* and counted
ListenNext(c) ==
  \/ Create(c)
  \/ ListenerRun(c)
  \/ NotifyDone(c)
  \/ GetRecent(c)
  \/ GetUnreadCount(c)
  \/ AddListener(c)
  \/ RemoveListener(c)

\* two users, notifications already expired or never expiring, and a session
\* of user 1 that registers a listener
DispatchCalls ==
  [BaseCalls EXCEPT !.users = {1, 2}, !.expiries = {NoTime, <<0>>},
                    !.maxId = MaxDispatchId, !.limits = {MaxDispatchId}]
Spec == Init /\ [][DispatchNext(DispatchCalls)]_vars

\* one user, two categories, marking read as the clock advances
ReadCalls ==
  [BaseCalls EXCEPT !.categories = {None, "TRADE"},
                    !.readCategories = {None, "TRADE"}, !.maxTime = MaxTime]
SpecRead == Init /\ [][StoreNext(ReadCalls)]_vars

\* one user, notifications expiring at each instant of the clock or never
ExpiryCalls ==
  [BaseCalls EXCEPT !.expiries = {NoTime} \cup {<<t>> : t \in 0..MaxTime},
                    !.maxTime = MaxTime]
SpecExpiry == Init /\ [][StoreNext(ExpiryCalls)]_vars

\* one user, every filter of the queries
FilterCalls ==
  [BaseCalls EXCEPT !.categories = {None, "TRADE"}, !.priorities = {"LOW", "HIGH"},
                    !.readCategories = {None, "TRADE", "BOT"},
                    !.unreadOnly = BOOLEAN,
                    !.filters = {NoFilter, PriorityFilter(<<>>),
                                 PriorityFilter(<<"HIGH", "URGENT">>)}]
SpecFilter == Init /\ [][QueryNext(FilterCalls)]_vars

\* one user, every priority, every limit
OrderCalls ==
  [BaseCalls EXCEPT !.priorities = Range(NotificationPriority),
                    !.limits = 0..MaxId, !.maxTime = MaxTime]
SpecOrder == Init /\ [][StoreNext(OrderCalls)]_vars

\* two sessions, each of user 1 or of another user, and notifications created
\* for user 1; a listener suspends in its send, returns or raises
ListenCalls ==
  [BaseCalls EXCEPT !.sessionUsers = {1, 2},
                    !.callbacks = {"cb1", "cb2"},
                    !.outcomes = {"suspended", "returned", "raised"},
                    !.maxId = MaxDispatchId, !.limits = {MaxDispatchId}]
SpecListen == Init /\ [][ListenNext(ListenCalls)]_vars

\* one user, and callers that pass an empty message, a level that is none of
\* the four, a category or a priority that is no member of its enum
InputCalls ==
  [BaseCalls EXCEPT !.messages = {"m", ""}, !.levels = {"info", "bogus"},
                    !.categories = {None, "bogus"},
                    !.priorities = {"MEDIUM", "bogus"}]
SpecInput == Init /\ [][QueryNext(InputCalls)]_vars

\* one user, titles given or left out, levels and categories of either kind
TitleCalls ==
  [BaseCalls EXCEPT !.levels = {"error", "warning", "bogus"},
                    !.categories = {"RISK", "TRADE"},
                    !.titles = {NoTitle, <<"Custom">>},
                    !.maxId = MaxDispatchId, !.limits = {MaxDispatchId}]
SpecTitle == Init /\ [][QueryNext(TitleCalls)]_vars

\* producers that create for one user and broadcast to several, while
\* notifications are deleted and listed
BroadcastNext(c) ==
  \/ Create(c)
  \/ Broadcast(c)
  \/ BroadcastCreate
  \/ broadcast_done
  \/ Delete(c)
  \/ GetRecent(c)

\* two users; a notification created with an expires_at that has no UTC
\* offset makes the later creates for its user fail
BroadcastCalls ==
  [BaseCalls EXCEPT !.users = {1, 2}, !.expiries = {NoTime, <<0, "naive">>},
                    !.userIds = {<<1, 2>>, <<2, 1>>, <<1, 1>>}]
SpecBroadcast == Init /\ [][BroadcastNext(BroadcastCalls)]_vars

\* clients that connect to /ws/notifications, authenticate or fail to, make
\* requests and leave in every way, while notifications are created for
\* user 1 and delivered; notification_listener catches what its send raises
\* (229-236), so that it suspends and returns
SessionNext(c) ==
  \/ SessionStart
  \/ SessionAuth(c)
  \/ SessionReject
  \/ SessionConnect
  \/ SessionRaise
  \/ SessionErrorSent
  \/ SessionServe(c)
  \/ Create(c)
  \/ ListenerRun(c)
  \/ NotifyDone(c)

SessionCalls ==
  [BaseCalls EXCEPT !.sessionUsers = {1, 2}, !.callbacks = {"cb1", "cb2"},
                    !.outcomes = {"suspended", "returned"},
                    !.maxId = MaxSessionId, !.limits = {MaxSessionId}]
SpecSession == Init /\ [][SessionNext(SessionCalls)]_vars

\* listeners registered and removed in any order, for either user, while
\* notifications are created and delivered
RegistryNext(c) ==
  \/ AddListener(c)
  \/ RemoveListener(c)
  \/ Create(c)
  \/ ListenerRun(c)
  \/ NotifyDone(c)

RegistryCalls ==
  [BaseCalls EXCEPT !.users = {1, 2}, !.sessionUsers = {1, 2},
                    !.callbacks = {"cb1", "cb2", "cb3"},
                    !.maxId = MaxSessionId, !.limits = {MaxSessionId}]
SpecRegistry == Init /\ [][RegistryNext(RegistryCalls)]_vars

\* one user whose notifications expire at each instant of the clock or never,
\* created while a session of the user listens, and deleted and listed while
\* creates wait for their listeners
PruneNext(c) ==
  \/ Tick(c)
  \/ Create(c)
  \/ ListenerRun(c)
  \/ NotifyDone(c)
  \/ Delete(c)
  \/ GetRecent(c)
  \/ AddListener(c)
  \/ RemoveListener(c)

PruneCalls ==
  [BaseCalls EXCEPT !.expiries = {NoTime} \cup {<<t>> : t \in 0..MaxTime},
                    !.maxTime = MaxTime]
SpecPrune == Init /\ [][PruneNext(PruneCalls)]_vars

\* the sessions of one user, and the event loop: it runs every coroutine that
\* is scheduled and resumes create_notification when its gather is complete;
\* when a suspended listener is resumed is up to what it waits for
LiveNext(c) ==
  \/ Create(c)
  \/ ListenerRun(c)
  \/ NotifyDone(c)
  \/ AddListener(c)
  \/ RemoveListener(c)

ListenerStart(c) ==
  \E task \in pending, outcome \in c.outcomes :
    \E i \in 1..Len(task.deliveries) :
      task.deliveries[i].state = "scheduled" /\ listener_run(task, i, outcome)

LiveCalls == [ListenCalls EXCEPT !.sessionUsers = {1}]
SpecLive ==
  /\ Init
  /\ [][LiveNext(LiveCalls)]_vars
  /\ WF_vars(ListenerStart(LiveCalls))
  /\ WF_vars(NotifyDone(LiveCalls))

\* ------------------------------------------------------------- properties
\* every notification the service holds: stored, or held by a suspended create
Stored == UNION {Range(notifications[u]) : u \in DOMAIN notifications}
Held == Stored \cup {t.notification : t \in pending}
StoredIds == {n.id : n \in Stored}
\* the notifications d holds under user u, none when it has no such key
Collection(d, u) == IF u \in DOMAIN d THEN d[u] ELSE <<>>

\* the step is the call of the operation that ret' records
IsMarkAsRead ==
  ret'.op = "mark_as_read" /\ mark_as_read(ret'.user_id, ret'.args[1])
IsMarkAllAsRead ==
  ret'.op = "mark_all_as_read" /\ mark_all_as_read(ret'.user_id, ret'.args[1])
IsGetRecent ==
  /\ ret'.op = "get_recent_notifications"
  /\ get_recent_notifications(ret'.user_id, ret'.args[1], ret'.args[2],
                              ret'.args[3], ret'.args[4])
IsGetUnreadCount ==
  /\ ret'.op = "get_unread_count"
  /\ get_unread_count(ret'.user_id, ret'.args[1], ret'.args[2])
IsGetStats ==
  ret'.op = "get_notification_stats" /\ get_notification_stats(ret'.user_id)

C2_ReadAtIffRead ==
  \A n \in Stored : (n.read_at # NoTime) <=> n.read

\* a read and an unread notification side by side, after a mark
C2_Witness ==
  /\ ret.op \in {"mark_as_read", "mark_all_as_read"}
  /\ \E n, m \in Stored : n.read /\ n.read_at # NoTime /\ ~m.read

\* C3: mark_as_read of a notification the user has returns true, the first
\* time and every time after; once read_at is set no step changes it, so a
\* second mark_as_read, or a mark_all_as_read, at a later clock value leaves
\* it as the first one set it.
C3_IdempotentRead ==
  [][/\ \A n \in Stored : \A m \in Stored' :
          (n.read_at # NoTime /\ m.id = n.id) => (m.read /\ m.read_at = n.read_at)
     /\ IsMarkAsRead =>
          LET mine == {n \in Range(Collection(notifications, ret'.user_id)) :
                         n.id = ret'.args[1]}
          IN /\ mine # {} => ret'.value = TRUE
             /\ (\E n \in mine : n.read) => notifications' = notifications]_vars

\* mark_as_read returned true at a clock value later than the read_at of the
\* notification it was called on
C3_Witness ==
  /\ ret.op = "mark_as_read"
  /\ ret.value = TRUE
  /\ \E n \in Stored :
       /\ n.id = ret.args[1]
       /\ n.read_at # NoTime
       /\ fromisoformat(n.read_at) < ret.at

\* C4: mark_as_read(u, id) returns true exactly when a notification with
\* that id is in u's own list (false for an id held by another user, an
\* unknown id or an unknown user), and it changes no other user's list.
C4_PartitionIsolation ==
  [][IsMarkAsRead =>
       LET u == ret'.user_id
           id == ret'.args[1]
       IN /\ ret'.value = (\E n \in Range(Collection(notifications, u)) : n.id = id)
          /\ \A v \in Users \ {u} :
               /\ (v \in DOMAIN notifications') = (v \in DOMAIN notifications)
               /\ Collection(notifications', v) = Collection(notifications, v)]_vars

\* mark_as_read returned false for an id that another user holds, unread
C4_Witness ==
  /\ ret.op = "mark_as_read"
  /\ ret.value = FALSE
  /\ \E v \in DOMAIN notifications \ {ret.user_id} :
       \E n \in Range(notifications[v]) :
         n.id = ret.args[1] /\ ~n.read /\ n.read_at = NoTime

\* C5: a call made for user u leaves the notification list and the listener
\* list of every other user as they were, and what a query for u returns is
\* computed from u's own list alone.
C5_Untouched(d, e, v) ==
  /\ (v \in DOMAIN e) = (v \in DOMAIN d)
  /\ Collection(e, v) = Collection(d, v)

C5_Own(u) == [k \in DOMAIN notifications \cap {u} |-> notifications[k]]

C5_UserFrame ==
  [][\A u \in Users :
       /\ CallFor(DispatchCalls, u) =>
            \A v \in Users \ {u} :
              /\ C5_Untouched(notifications, notifications', v)
              /\ C5_Untouched(listeners, listeners', v)
       /\ (IsGetRecent /\ ret'.user_id = u)
            => ret'.value = RecentOf(C5_Own(u), u, ret'.args[1], ret'.args[2],
                                     ret'.args[3], ret'.args[4])
       /\ (IsGetUnreadCount /\ ret'.user_id = u)
            => ret'.value = UnreadCountOf(C5_Own(u), u, ret'.args[1], ret'.args[2])
       /\ (IsGetStats /\ ret'.user_id = u)
            => ret'.value = StatsOf(C5_Own(u), u)]_vars

\* a bulk mark for user 2 returned while user 1 holds an unread notification
\* and a registered listener
C5_Witness ==
  /\ ret.op = "mark_all_as_read"
  /\ ret.user_id = 2
  /\ ret.value >= 1
  /\ 1 \in DOMAIN notifications
  /\ \E n \in Range(notifications[1]) : ~n.read
  /\ 1 \in DOMAIN listeners
  /\ listeners[1] # <<>>

\* C6: a notification created with expires_at already in the past is gone
\* from what list returns and from what unread_count and stats count once a
\* write to its user's list (create, mark_as_read, mark_all_as_read, delete)
\* has followed its creation.
C6_BornExpired(n) ==
  n.expires_at # NoTime /\ fromisoformat(n.expires_at) < fromisoformat(n.timestamp)

C6_ExpiredGoneAfterWrite ==
  [][\A u \in Users :
       (Collection(notifications', u) # Collection(notifications, u)
          /\ WriteFor(ExpiryCalls, u))
       => \A n \in Range(Collection(notifications, u)) :
            C6_BornExpired(n) =>
              /\ \A m \in Range(RecentOf(notifications', u, MaxId, None, FALSE,
                                         NoFilter)) : m.id # n.id
              /\ \A m \in Range(Collection(notifications', u)) : m.id # n.id]_vars

\* C7: no query returns or counts a notification whose expires_at has passed
\* when the query runs.
C7_Live(n, at) == n.expires_at = NoTime \/ fromisoformat(n.expires_at) > at

C7_LiveOnes(d, u, at) == SelectSeq(Collection(d, u), LAMBDA n : C7_Live(n, at))

C7_NoExpiredRead ==
  [][/\ IsGetRecent => \A n \in Range(ret'.value) : C7_Live(n, now)
     /\ (IsGetUnreadCount /\ ret'.args = <<None, NoFilter>>)
          => ret'.value = Len(SelectSeq(C7_LiveOnes(notifications, ret'.user_id, now),
                                        LAMBDA n : ~n.read))
     /\ IsGetStats
          => ret'.value.total = Len(C7_LiveOnes(notifications, ret'.user_id, now))]_vars

\* C8: with a limit of at least the size of the list, list(u, category,
\* unread_only, priority_filter) returns exactly the notifications of u that
\* pass every filter in force, each once: the category when one is given,
\* unread when unread_only is true, the priority set when priority_filter is
\* given and not empty.  An omitted filter, and an empty priority_filter,
\* exclude nothing.
C8_Passes(n, category, unread_only, members) ==
  /\ category # None => n.category = CategoryValue(category)
  /\ unread_only => ~n.read
  /\ members # <<>> => n.priority \in {PriorityValue(p) : p \in Range(members)}

C8_Exactly(result, all, Passes(_)) ==
  /\ Range(result) = {n \in Range(all) : Passes(n)}
  /\ Len(result) = Cardinality(Range(result))

C8_FilterComposition ==
  [][(IsGetRecent /\ ret'.args[1] >= Len(Collection(notifications, ret'.user_id)))
       => C8_Exactly(ret'.value, Collection(notifications, ret'.user_id),
                     LAMBDA n : C8_Passes(n, ret'.args[2], ret'.args[3],
                                          ret'.args[4].members))]_vars

\* C8 as claimed: every filter that is supplied takes part in the AND, the
\* priority_filter also when it is the empty list (which nothing passes).
C8_AsClaimed ==
  [][(IsGetRecent /\ ret'.args[1] >= Len(Collection(notifications, ret'.user_id)))
       => C8_Exactly(ret'.value, Collection(notifications, ret'.user_id),
                     LAMBDA n :
                       /\ C8_Passes(n, ret'.args[2], ret'.args[3], ret'.args[4].members)
                       /\ ret'.args[4].given =>
                            n.priority \in {PriorityValue(p) :
                                              p \in Range(ret'.args[4].members)})]_vars

\* list(category=TRADE, unread_only=True) returned an unread trade
\* notification and left out a read trade one and an unread one of another
\* category
C8_Witness ==
  /\ ret.op = "get_recent_notifications"
  /\ ret.args = <<MaxId, "TRADE", TRUE, NoFilter>>
  /\ \E n, m, k \in Stored :
       /\ n \in Range(ret.value) /\ n.category = "trade" /\ ~n.read
       /\ m \notin Range(ret.value) /\ m.category = "trade" /\ m.read
       /\ k \notin Range(ret.value) /\ k.category = "system" /\ ~k.read

\* C9: list returns the matching notifications ordered by priority, urgent
\* before high before medium before low, and among equal priorities newest
\* first, cut to the first min(limit, k) of the k that match: never more
\* than limit, none for limit 0.
C9_Rank(priority) ==
  CASE priority = "urgent" -> 4
    [] priority = "high" -> 3
    [] priority = "medium" -> 2
    [] priority = "low" -> 1

C9_Precedes(a, b) ==
  \/ C9_Rank(a.priority) > C9_Rank(b.priority)
  \/ /\ C9_Rank(a.priority) = C9_Rank(b.priority)
     /\ fromisoformat(a.timestamp) > fromisoformat(b.timestamp)

C9_OrderAndLimit ==
  [][(IsGetRecent /\ ret'.args[2] = None /\ ~ret'.args[3] /\ ret'.args[4] = NoFilter)
       => LET r == ret'.value
              limit == ret'.args[1]
              all == Range(Collection(notifications, ret'.user_id))
              k == Cardinality(all)
          IN /\ Len(r) = IF limit < k THEN limit ELSE k
            /\ Range(r) \subseteq all
            /\ Cardinality(Range(r)) = Len(r)
            /\ \A i, j \in 1..Len(r) : i < j => ~C9_Precedes(r[j], r[i])
            /\ \A m \in all \ Range(r) : \A x \in Range(r) : ~C9_Precedes(m, x)]_vars

\* list with limit 2 returned two notifications of equal priority, the newer
\* first though it was stored later, and left out a third of lower priority
C9_Witness ==
  /\ ret.op = "get_recent_notifications"
  /\ ret.args[1] = 2
  /\ Len(ret.value) = 2
  /\ ret.value[1].priority = ret.value[2].priority
  /\ fromisoformat(ret.value[1].timestamp) > fromisoformat(ret.value[2].timestamp)
  /\ \E m \in Stored : m \notin Range(ret.value) /\ C9_Precedes(ret.value[2], m)

\* C10: mark_all_as_read(u, category) marks exactly the notifications of u
\* that were unread (and of the category, when one is given), returns their
\* number, leaves every other notification as it was, and leaves nothing for
\* an immediately repeated call to mark (which therefore returns 0).
C10_Hit(n, category) ==
  ~n.read /\ (category = None \/ n.category = CategoryValue(category))

C10_BulkReadCount ==
  [][IsMarkAllAsRead =>
         LET category == ret'.args[1]
             before == Collection(notifications, ret'.user_id)
             after == Collection(notifications', ret'.user_id)
         IN /\ ret'.value =
                 Cardinality({i \in 1..Len(before) : C10_Hit(before[i], category)})
            /\ Len(after) = Len(before)
            /\ \A i \in 1..Len(before) :
                 after[i] = IF C10_Hit(before[i], category)
                              THEN [before[i] EXCEPT !.read = TRUE,
                                                     !.read_at = isoformat(now)]
                              ELSE before[i]
            /\ \A i \in 1..Len(after) : ~C10_Hit(after[i], category)]_vars

\* mark_all_as_read of one category marked something, next to a notification
\* read earlier and an unread one of another category
C10_Witness ==
  /\ ret.op = "mark_all_as_read"
  /\ ret.args = <<"TRADE">>
  /\ ret.value >= 1
  /\ \E n, m, k \in Stored :
       /\ n.category = "trade" /\ n.read_at = isoformat(ret.at)
       /\ m.category = "trade" /\ m.read /\ fromisoformat(m.read_at) < ret.at
       /\ k.category = "system" /\ ~k.read

\* the step is a create_notification that got as far as its dispatch
IsCreate == notification_id_counter' # notification_id_counter
\* the task of the create that handed out id, none when it is not suspended
TaskOf(tasks, id) == {t \in tasks : t.notification.id = id}

\* C11: when create_notification(u, ...) dispatches, one coroutine is
\* gathered for each registration of u at that moment, in registration
\* order, and none for a callback that only another user registered; each
\* holds the notification that is stored and that the call returns; a
\* coroutine runs forward only (scheduled, suspended, finished), so that no
\* registration is invoked twice for one notification.
C11_FanOut ==
  [][/\ IsCreate =>
          LET id == notification_id_counter
              new == {n \in Stored' : n.id = id}
              cbs == IF new = {} THEN <<>>
                     ELSE Collection(listeners, (CHOOSE n \in new : TRUE).user_id)
          IN /\ new # {}
             /\ IF cbs = <<>>
                  THEN pending' = pending /\ ret'.op = "create" /\ ret'.value \in new
                  ELSE /\ Cardinality(TaskOf(pending', id)) = 1
                       /\ pending' \ TaskOf(pending', id) = pending
                       /\ \A t \in TaskOf(pending', id) :
                            /\ t.notification \in new
                            /\ Len(t.deliveries) = Len(cbs)
                            /\ \A i \in 1..Len(cbs) :
                                 t.deliveries[i] = [cb |-> cbs[i], state |-> "scheduled"]
     /\ \A t \in pending :
          /\ \A n \in Stored : n.id = t.notification.id => n = t.notification
          /\ TaskOf(pending', t.notification.id) = {}
               => /\ ret'.op = "create"
                  /\ ret'.value = t.notification
                  /\ \A i \in 1..Len(t.deliveries) : t.deliveries[i].state \in Finished
          /\ \A r \in TaskOf(pending', t.notification.id) :
               /\ Len(r.deliveries) = Len(t.deliveries)
               /\ \A i \in 1..Len(t.deliveries) :
                    /\ r.deliveries[i].cb = t.deliveries[i].cb
                    /\ t.deliveries[i].state \in Finished
                         => r.deliveries[i].state = t.deliveries[i].state
                    /\ r.deliveries[i].state = "scheduled"
                         => t.deliveries[i].state = "scheduled"]_vars

\* a create for user 1 has run its one listener while user 2 has a listener
\* of its own, which was not gathered
C11_Witness ==
  \E t \in pending :
    /\ t.notification.user_id = 1
    /\ t.notification \in Stored
    /\ Len(t.deliveries) = 1
    /\ t.deliveries[1].state \in Finished
    /\ 2 \in DOMAIN listeners
    /\ \E cb \in Range(listeners[2]) : cb # t.deliveries[1].cb
\* C12: a listener that raises stops nothing: every coroutine of the
\* dispatch that has not run can still run, whatever the others did and
\* whatever its position; once all are finished, returned or raised, the
\* call can return and returns the notification; no call ever ends with an
\* exception of a listener.
C12_Over == {"returned", "raised"}

C13_CreateReturns ==
  \A id \in 1..MaxDispatchId :
    (TaskOf(pending, id) # {}) ~> (TaskOf(pending, id) = {})
\* C14: the notification is in its user's list when its listeners are
\* gathered; no step of a listener, whether it returns or raises, changes
\* the store, so the notification stays stored, the next list returns it and
\* the next unread_count counts it; a coroutine that raised is not run again
\* and no step but a create gathers coroutines.
C14_StoredWhateverDelivery ==
  [][/\ IsCreate =>
          \A t \in TaskOf(pending', notification_id_counter) :
            t.notification \in
              Range(Collection(notifications', t.notification.user_id))
     /\ (~IsCreate /\ pending' # pending) =>
          /\ notifications' = notifications
          /\ \A r \in pending' : \E t \in pending :
               /\ t.notification = r.notification
               /\ Len(t.deliveries) = Len(r.deliveries)
               /\ \A i \in 1..Len(t.deliveries) :
                    t.deliveries[i].state = "raised"
                      => r.deliveries[i].state = "raised"
     /\ \A id \in Range(issued) : id \in StoredIds
     /\ (IsGetRecent /\ ret'.args[2] = None /\ ~ret'.args[3] /\ ret'.args[4] = NoFilter)
          => \A t \in pending :
               (t.notification.user_id = ret'.user_id /\ ret'.args[1] >= Cardinality(Stored))
                 => t.notification \in Range(ret'.value)
     /\ (IsGetUnreadCount /\ ret'.args = <<None, NoFilter>>)
          => ret'.value >= Cardinality({t \in pending :
                              t.notification.user_id = ret'.user_id})]_vars

\* list returned a notification whose delivery to one listener raised and to
\* another returned
C14_Witness ==
  /\ ret.op = "get_recent_notifications"
  /\ \E t \in pending :
       /\ t.notification \in Range(ret.value)
       /\ \E i, j \in 1..Len(t.deliveries) :
            t.deliveries[i].state = "raised" /\ t.deliveries[j].state = "returned"
\* the callbacks a set of tasks holds coroutines of
C15_Cbs(t) == {t.deliveries[i].cb : i \in 1..Len(t.deliveries)}

\* C15: a create gathers the callbacks that are registered for its user when
\* it dispatches, no others: not one that is added later, not one whose
\* remove_listener has returned.  add_listener and remove_listener leave the
\* dispatches in flight as they are, so that a coroutine gathered before the
\* removal of its callback still runs after it.
C15_GatheredWhileRegistered ==
  [][/\ IsCreate =>
          \A t \in TaskOf(pending', notification_id_counter) :
            C15_Cbs(t) = Range(Collection(listeners, t.notification.user_id))
     /\ ret'.op = "remove_listener" /\ listeners' # listeners =>
          /\ ret'.args[1] \notin Range(Collection(listeners', ret'.user_id))
          /\ pending' = pending
     /\ ret'.op = "add_listener" /\ listeners' # listeners =>
          /\ ret'.args[1] \in Range(Collection(listeners', ret'.user_id))
          /\ pending' = pending
     /\ listeners' # listeners => ret'.op \in {"add_listener", "remove_listener"}]_vars

\* C15 as claimed: a coroutine of a callback takes a step only while the
\* callback is registered for the user of the notification; that of a
\* dispatch in flight when remove_listener returned does not run after it.
C15_AsClaimed ==
  [][\A t \in pending : \A r \in TaskOf(pending', t.notification.id) :
       \A i \in 1..Len(t.deliveries) :
         (Len(r.deliveries) = Len(t.deliveries)
            /\ r.deliveries[i].state # t.deliveries[i].state)
         => t.deliveries[i].cb \in
              Range(Collection(listeners, t.notification.user_id))]_vars

\* a dispatch in flight holds a coroutine, not yet run, of a callback that is
\* registered no more, and none of a callback that was registered after it
C15_Witness ==
  \E t \in pending :
    /\ \E i \in 1..Len(t.deliveries) :
         /\ t.deliveries[i].state = "scheduled"
         /\ t.deliveries[i].cb \notin
              Range(Collection(listeners, t.notification.user_id))
    /\ \E cb \in Range(Collection(listeners, t.notification.user_id)) :
         cb \notin C15_Cbs(t)
\* what one call does to the list b of a user when it runs alone
C16_Deleted(b, id) == SelectSeq(b, LAMBDA n : n.id # id)
C16_MarkedOne(b, id) ==
  [i \in 1..Len(b) |->
     IF b[i].id = id /\ ~b[i].read
       THEN [b[i] EXCEPT !.read = TRUE, !.read_at = isoformat(now)] ELSE b[i]]
C16_MarkedAll(b, category) ==
  [i \in 1..Len(b) |->
     IF ~b[i].read /\ (category = None \/ b[i].category = CategoryValue(category))
       THEN [b[i] EXCEPT !.read = TRUE, !.read_at = isoformat(now)] ELSE b[i]]
C16_Created(b, a) ==
  /\ a # <<>>
  /\ a[Len(a)].id = notification_id_counter
  /\ ~a[Len(a)].read
  /\ SubSeq(a, 1, Len(a) - 1) = SelectSeq(b, LAMBDA n : C7_Live(n, now))

\* the step resumes a create suspended in its dispatch, or runs one of its
\* coroutines
C16_Resumed ==
  \E t \in pending :
    \/ TaskOf(pending', t.notification.id) = {}
    \/ \E r \in TaskOf(pending', t.notification.id) : r.deliveries # t.deliveries

\* C16: with creates suspended in their dispatch and other calls running
\* meanwhile, every step that changes a user's list changes it as one whole
\* call (create, mark_as_read, mark_all_as_read, delete_notification) run
\* alone would, so that the list is always the result of the calls applied
\* one at a time; a create that is resumed writes nothing.  Hence no
\* notification is lost (one leaves the list only by its delete or, expired,
\* by the prune of a create), none reappears (one enters only as the new
\* notification of a create) and no read mark is lost.
C16_Serial ==
  [][/\ \A u \in Users :
          LET b == Collection(notifications, u)
              a == Collection(notifications', u)
          IN a # b =>
               \/ C16_Created(b, a)
               \/ \E id \in 1..MaxId : a = C16_Deleted(b, id)
               \/ \E id \in 1..MaxId : a = C16_MarkedOne(b, id)
               \/ \E category \in {None} \cup Range(NotificationCategory) :
                    a = C16_MarkedAll(b, category)
     /\ C16_Resumed => notifications' = notifications
     /\ \A n \in Stored :
          /\ n.id \notin StoredIds' =>
               \/ ret'.op = "delete_notification" /\ ret'.args[1] = n.id
               \/ IsCreate /\ ~C7_Live(n, now)
          /\ n.read => \A m \in Stored' : m.id = n.id => m.read
     /\ \A m \in Stored' :
          m.id \notin StoredIds => IsCreate /\ m.id = notification_id_counter]_vars

\* a delete_notification took the notification of a create that is still
\* suspended in its dispatch, while another notification has been read
C16_Witness ==
  /\ ret.op = "delete_notification"
  /\ ret.value = TRUE
  /\ \E t \in pending :
       /\ t.notification.id = ret.args[1]
       /\ t.notification.id \notin StoredIds
  /\ \E n \in Stored : n.read
\* C17: create_notification fails with a ValidationError when the message is
\* empty or the level, the category or the priority is not one of the
\* enumerated values: it raises nothing else, and nothing invalid is stored.
C17_Levels == {"info", "warning", "error", "success"}

C17_Validated ==
  /\ \A n \in Stored :
       /\ n.message # ""
       /\ n.level \in C17_Levels
       /\ n.category \in {CategoryValue(c) : c \in Range(NotificationCategory)}
       /\ n.priority \in {PriorityValue(p) : p \in Range(NotificationPriority)}
  /\ ret.op = "create raised" => ret.value = "ValidationError"

\* C18: a create_notification that raises leaves the store as it was: no
\* notification added or pruned, the id counter where it was, no listener
\* gathered.
C18_FailedCreateNoEffect ==
  [][(issued' # issued /\ ret'.op = "create raised")
       => /\ notifications' = notifications
          /\ notification_id_counter' = notification_id_counter
          /\ pending' = pending
          /\ listeners' = listeners]_vars
\* the fixed mapping, by the value of the category and by the level
C19_CategoryTitle(value) ==
  CASE value = "trade" -> "Trade"
    [] value = "bot" -> "Bot"
    [] value = "market" -> "Market"
    [] value = "system" -> "System"
    [] value = "portfolio" -> "Portfolio"
    [] value = "risk" -> "Risk"
    [] OTHER -> "Notification"
C19_LevelTitle(level) ==
  IF level = "info" THEN "Information"
  ELSE IF level = "warning" THEN "Warning"
  ELSE IF level = "error" THEN "Error"
  ELSE IF level = "success" THEN "Success"
  ELSE "Notification"

\* C19: a create_notification with a category and a level and no title
\* returns the title made of the category's title and the level's title, in
\* that order, "Notification" standing for a level that is none of the four
\* (error and risk give "Risk Error", warning and trade "Trade Warning");
\* with a title it returns that title.
C19_Titles ==
  [][\A level \in TitleCalls.levels, category \in TitleCalls.categories,
        title \in TitleCalls.titles :
       create_notification(1, "m", level, title, category, "MEDIUM", NoTime)
       => /\ ret'.op = "create"
          /\ ret'.value.title =
               IF title # NoTitle THEN title
               ELSE <<C19_CategoryTitle(CategoryValue(category)),
                      C19_LevelTitle(level)>>
          /\ (title = NoTitle /\ level = "error" /\ category = "RISK")
               => ret'.value.title = <<"Risk", "Error">>
          /\ (title = NoTitle /\ level = "warning" /\ category = "TRADE")
               => ret'.value.title = <<"Trade", "Warning">>
          /\ \E n \in Stored' : n = ret'.value]_vars

\* a create returned "Risk Error" after one that returned the title it was
\* given
C19_Witness ==
  /\ ret.op = "create"
  /\ ret.value.title = <<"Risk", "Error">>
  /\ ret.value.level = "error"
  /\ ret.value.category = "risk"
  /\ \E n \in Stored : n.title = <<"Custom">>
\* a step that is a new call of broadcast_notification: the one before has
\* ended, no create ran in the step, and the gather is a new one
C20_NewCall ==
  /\ broadcast.returned
  /\ notification_id_counter' = notification_id_counter
  /\ broadcast' # broadcast

\* C20: broadcast_notification gathers one create_notification per entry of
\* user_ids, in their order; each is started once, whatever became of the
\* others and whether or not the broadcast has already ended with the
\* exception of one of them; it raises only when the create for its own user
\* fails, and otherwise stores a notification for its user.
C20_BroadcastReachesAll ==
  [][/\ \A user_ids \in BroadcastCalls.userIds :
          broadcast_notification(user_ids, "m", "info", NoTitle, None, "MEDIUM")
          => /\ Len(broadcast'.tasks) = Len(user_ids)
             /\ \A i \in 1..Len(user_ids) :
                  broadcast'.tasks[i] =
                    [user_id |-> user_ids[i], state |-> "scheduled", id |-> 0]
     /\ \A i \in 1..Len(broadcast.tasks) :
          LET t == broadcast.tasks[i]
          IN /\ t.state = "scheduled" => ENABLED broadcast_create(i)
             /\ ~C20_NewCall =>
                  LET r == broadcast'.tasks[i]
                  IN /\ r.user_id = t.user_id
                     /\ t.state # "scheduled" => r = t
                     /\ r.state \in {"scheduled", "ran", "raised"}
                     /\ (t.state = "scheduled" /\ r.state = "raised")
                          => \E n \in Range(Collection(notifications, t.user_id)) :
                               n.expires_at # NoTime /\ Len(n.expires_at) = 2
                     /\ (t.state = "scheduled" /\ r.state = "ran")
                          => /\ r.id = notification_id_counter
                             /\ \E n \in Range(Collection(notifications', t.user_id)) :
                                  n.id = r.id /\ n.message = broadcast.call[1]]_vars

\* the create for one user of a broadcast raised, the broadcast ended with
\* its exception, and the create for the other user ran after that and
\* stored its notification
C20_Witness ==
  /\ broadcast.returned
  /\ ret.op = "create"
  /\ \E i, j \in 1..Len(broadcast.tasks) :
       /\ broadcast.tasks[i].state = "raised"
       /\ broadcast.tasks[j].state = "ran"
       /\ broadcast.tasks[j].id > broadcast.tasks[i].id
       /\ broadcast.tasks[j].user_id # broadcast.tasks[i].user_id
       /\ ret.value.id = broadcast.tasks[j].id
       /\ ret.value \in Range(Collection(notifications, broadcast.tasks[j].user_id))
\* C21: in every state, for every user, category and priority_filter, what
\* get_unread_count returns is the number of notifications that
\* get_recent_notifications returns for the same category and priority_filter
\* with unread_only=True and a limit that is at least the size of the user's
\* list.
C21_CountIsUnreadList ==
  \A u \in Users, category \in FilterCalls.readCategories,
     priority_filter \in FilterCalls.filters :
    \A limit \in Len(Collection(notifications, u))..MaxId :
      UnreadCountOf(notifications, u, category, priority_filter)
        = Len(RecentOf(notifications, u, limit, category, TRUE, priority_filter))

\* get_unread_count has just returned a count for a category and a priority
\* filter that leave out some unread notifications, while a read notification
\* passes both
C21_Witness ==
  /\ ret.op = "get_unread_count"
  /\ ret.args[1] # None /\ Truthy(ret.args[2])
  /\ ret.value > 0
  /\ ret.value < Len(SelectSeq(Collection(notifications, ret.user_id), KeepUnread))
  /\ \E n \in Range(Collection(notifications, ret.user_id)) :
       /\ n.read
       /\ KeepCategory(n, ret.args[1])
       /\ KeepPriority(n, ret.args[2])
\* the sum of the values of a map of counts
RECURSIVE C22_Sum(_)
C22_Sum(f) ==
  IF DOMAIN f = {} THEN 0
  ELSE LET k == CHOOSE x \in DOMAIN f : TRUE
       IN f[k] + C22_Sum([x \in DOMAIN f \ {k} |-> f[x]])
\* what a map of counts holds under a key, 0 when it has no such key
C22_At(f, k) == IF k \in DOMAIN f THEN f[k] ELSE 0

\* C22: in every state, for every user, get_notification_stats reports as
\* total the length of the user's list, as unread what get_unread_count
\* returns without filters, and under each category value and each priority
\* value the number of stored notifications of the user, read or unread, that
\* carry it; the maps have no other keys, the values of each map sum to total,
\* and unread is at most total.
C22_Stats ==
  \A u \in Users :
    LET s == StatsOf(notifications, u)
        l == Collection(notifications, u)
        with(field, v) == Cardinality({i \in 1..Len(l) : l[i][field] = v})
        categoryValues == {CategoryValue(c) : c \in Range(NotificationCategory)}
        priorityValues == {PriorityValue(p) : p \in Range(NotificationPriority)}
    IN /\ s.total = Len(l)
       /\ s.unread = UnreadCountOf(notifications, u, None, NoFilter)
       /\ DOMAIN s.categories \subseteq categoryValues
       /\ DOMAIN s.priorities \subseteq priorityValues
       /\ \A v \in categoryValues : C22_At(s.categories, v) = with("category", v)
       /\ \A v \in priorityValues : C22_At(s.priorities, v) = with("priority", v)
       /\ C22_Sum(s.categories) = s.total
       /\ C22_Sum(s.priorities) = s.total
       /\ s.unread <= s.total

\* get_notification_stats has just returned for a user who holds read and
\* unread notifications of two categories and two priorities
C22_Witness ==
  /\ ret.op = "get_notification_stats"
  /\ ret.value = StatsOf(notifications, ret.user_id)
  /\ ret.value.total = MaxId
  /\ ret.value.unread > 0 /\ ret.value.unread < ret.value.total
  /\ Cardinality(DOMAIN ret.value.categories) = 2
  /\ Cardinality(DOMAIN ret.value.priorities) = 2
  /\ \E n \in Range(Collection(notifications, ret.user_id)) :
       n.read /\ ret.value.categories[n.category] = 1
\* the step is a call of delete_notification
IsDelete ==
  /\ ret'.op = "delete_notification"
  /\ delete_notification(ret'.user_id, ret'.args[1])

\* C23: delete_notification(u, id) returns True exactly when a notification
\* with that id was in u's list before the call; afterwards the list holds
\* no notification with that id and holds every other notification it held,
\* each as it was and in the order they were in; when u has no list or the
\* list has no such id it returns False and the store is as it was, with no
\* key added; the lists of the other users, the listeners and the counter
\* are never touched.
C23_Delete ==
  [][IsDelete =>
       LET u == ret'.user_id
           id == ret'.args[1]
           old == Collection(notifications, u)
           new == Collection(notifications', u)
           others == {k \in 1..Len(old) : old[k].id # id}
           present == \E n \in Range(old) : n.id = id
       IN /\ ret'.value = present
          /\ \A n \in Range(new) : n.id # id
          /\ Len(new) = Cardinality(others)
          /\ \A k \in others : old[k] \in Range(new)
          /\ \A i, j \in 1..Len(new) :
               i < j => \E k, l \in others :
                          k < l /\ old[k] = new[i] /\ old[l] = new[j]
          /\ ~present => notifications' = notifications
          /\ DOMAIN notifications' = DOMAIN notifications
          /\ \A v \in DOMAIN notifications \ {u} :
               notifications'[v] = notifications[v]
          /\ UNCHANGED <<listeners, notification_id_counter, pending>>]_vars

\* the second of three notifications has just been deleted: the first and
\* the third are left, in that order, one of them read
C23_Witness ==
  /\ ret.op = "delete_notification"
  /\ ret.value
  /\ ret.args[1] = 2
  /\ Len(Collection(notifications, ret.user_id)) = 2
  /\ Collection(notifications, ret.user_id)[1].id = 1
  /\ Collection(notifications, ret.user_id)[2].id = 3
  /\ Collection(notifications, ret.user_id)[2].read
  /\ ~Collection(notifications, ret.user_id)[1].read
\* the callbacks of the handlers of user u that are past line 251 and have
\* not finished
C24_Live(u) ==
  {notification_listener(w) :
     w \in {x \in Sockets : /\ handler[x].pc \in {"open", "error"}
                            /\ handler[x].registered
                            /\ handler[x].user = u}}

\* no callback and no connection is left of a handler that has finished, and
\* every listener list holds the callbacks of the running handlers of its
\* user, each once
C24_NothingLeft ==
  /\ \A w \in Sockets :
       handler[w].pc \in HandlerOver =>
         /\ \A u \in DOMAIN listeners :
              notification_listener(w) \notin Range(listeners[u])
         /\ \A conn \in Range(active_connections) : conn.websocket # w
  /\ \A u \in DOMAIN listeners :
       /\ Range(listeners[u]) = C24_Live(u)
       /\ Len(listeners[u]) = Cardinality(C24_Live(u))

\* C24: a handler of /ws/notifications that registered its listener (line
\* 251) calls remove_listener for its user and its callback in the step in
\* which it finishes, whether it finishes by a return, by a
\* WebSocketDisconnect or after another exception; once a handler has
\* finished, its callback is in no listener list and its websocket is not
\* among the manager's active connections, so that each listener list holds
\* exactly the callbacks of the handlers of its user that are running.
C24_SessionCleanup ==
  [][/\ C24_NothingLeft
     /\ C24_NothingLeft'
     /\ \A w \in Sockets :
          (/\ handler[w].pc \notin HandlerOver
           /\ handler'[w].pc \in HandlerOver
           /\ handler[w].registered)
            => /\ ret'.op = "remove_listener"
               /\ ret'.user_id = handler[w].user
               /\ ret'.args = <<notification_listener(w)>>]_vars

\* a handler that had registered its listener has finished after an
\* exception, while another handler of the same user is still running with
\* its listener registered and a notification of theirs is stored
C24_Witness ==
  \E w, x \in Sockets :
    /\ handler[w].pc = "failed" /\ handler[w].registered
    /\ handler[x].pc = "open" /\ handler[x].user = handler[w].user
    /\ handler[x].user \in DOMAIN listeners
    /\ listeners[handler[x].user] = <<notification_listener(x)>>
    /\ Collection(notifications, handler[x].user) # <<>>
\* the step is a call of remove_listener
IsRemoveListener ==
  /\ ret'.op = "remove_listener"
  /\ remove_listener(ret'.user_id, ret'.args[1])

\* C25: remove_listener(u, cb) returns without an error; when cb is not in
\* the listener list of u, or u has no listener list, the listener lists of
\* all users are as they were and no list is added; when cb is in the list,
\* it is not in it afterwards and every other callback of u is, in the order
\* they were in; no other user's list changes, and neither do the
\* notifications or the dispatches in flight.
C25_RemoveListener ==
  [][IsRemoveListener =>
       LET u == ret'.user_id
           cb == ret'.args[1]
           old == Collection(listeners, u)
           new == Collection(listeners', u)
           others == {k \in 1..Len(old) : old[k] # cb}
       IN /\ ret'.value = None
          /\ cb \notin Range(old) => listeners' = listeners
          /\ DOMAIN listeners' = DOMAIN listeners
          /\ \A v \in DOMAIN listeners \ {u} : listeners'[v] = listeners[v]
          /\ cb \notin Range(new)
          /\ Len(new) = Cardinality(others)
          /\ \A k \in others : old[k] \in Range(new)
          /\ \A i, j \in 1..Len(new) :
               i < j => \E k, l \in others :
                          k < l /\ old[k] = new[i] /\ old[l] = new[j]
          /\ UNCHANGED <<notifications, notification_id_counter, pending>>]_vars

\* the callback registered second of three has just been removed: the first
\* and the third are left, in that order
C25_Witness ==
  /\ ret.op = "remove_listener"
  /\ ret.user_id \in DOMAIN listeners
  /\ Len(listeners[ret.user_id]) = 2
  /\ ret.args[1] \notin Range(listeners[ret.user_id])
  /\ \E t \in pending :
       /\ Len(t.deliveries) = 3
       /\ t.deliveries[2].cb = ret.args[1]
       /\ t.deliveries[1].cb = listeners[ret.user_id][1]
       /\ t.deliveries[3].cb = listeners[ret.user_id][2]
\* C26: get_recent_notifications, get_unread_count and get_notification_stats
\* leave the store as it was: the notifications of every user with their
\* read and read_at, the keys of the store, the listener lists, the counter
\* and the creates in flight; for a user who has no notification, with or
\* without a key in the store, they return the empty list, 0, and statistics
\* with total 0, unread 0 and no counted category or priority.
C26_ReadsAreFrameFree ==
  [][(IsGetRecent \/ IsGetUnreadCount \/ IsGetStats) =>
       /\ notifications' = notifications
       /\ DOMAIN notifications' = DOMAIN notifications
       /\ listeners' = listeners
       /\ notification_id_counter' = notification_id_counter
       /\ pending' = pending
       /\ issued' = issued
       /\ Collection(notifications, ret'.user_id) = <<>> =>
            ret'.value =
              CASE ret'.op = "get_recent_notifications" -> <<>>
                [] ret'.op = "get_unread_count" -> 0
                [] ret'.op = "get_notification_stats" ->
                     [total |-> 0, unread |-> 0,
                      categories |-> <<>>, priorities |-> <<>>]]_vars

\* a read has just returned for a user who has no key in the store, while
\* the other user holds a read notification and a listener is registered
C26_Witness ==
  /\ ret.op \in {"get_recent_notifications", "get_unread_count",
                 "get_notification_stats"}
  /\ ret.user_id \notin DOMAIN notifications
  /\ \E v \in DOMAIN notifications : \E n \in Range(notifications[v]) : n.read
  /\ \E v \in DOMAIN listeners : listeners[v] # <<>>
\* the notification n had expired when the clock read at
C27_ExpiredAt(n, at) ==
  n.expires_at # NoTime /\ ~(fromisoformat(n.expires_at) > at)

\* no notification in the list l had expired by the time a later one of the
\* list was created
C27_NoneOutlived(l) ==
  \A i, j \in 1..Len(l) :
    l[i].id < l[j].id => ~C27_ExpiredAt(l[i], fromisoformat(l[j].timestamp))

\* C27 (as amended): in the step in which create_notification stores its
\* notification, the user's list becomes the notifications it held whose
\* expires_at is absent or later than the clock, as they were and in their
\* order, followed by the new notification, which stays even when it is
\* created already expired; from then on the list never holds, and
\* get_recent_notifications never returns, a notification that had expired
\* when a later notification of the list was created.
C27_PruneThenAppend ==
  [][/\ \A u \in Users :
          (/\ IsCreate
           /\ \E n \in Range(Collection(notifications', u)) :
                n.id = notification_id_counter)
          => LET old == Collection(notifications, u)
                 new == Collection(notifications', u)
                 kept == {k \in 1..Len(old) : ~C27_ExpiredAt(old[k], now)}
             IN /\ Len(new) = Cardinality(kept) + 1
                /\ new[Len(new)].id = notification_id_counter
                /\ \A k \in kept : old[k] \in Range(new)
                /\ \A k \in 1..Len(old) :
                     k \notin kept => \A m \in Range(new) : m.id # old[k].id
                /\ \A i, j \in 1..(Len(new) - 1) :
                     i < j => \E k, l \in kept :
                                k < l /\ old[k] = new[i] /\ old[l] = new[j]
     /\ \A u \in Users : C27_NoneOutlived(Collection(notifications', u))
     /\ IsGetRecent =>
          \A m \in Range(ret'.value) :
            \A n \in Range(Collection(notifications, ret'.user_id)) :
              m.id < n.id => ~C27_ExpiredAt(m, fromisoformat(n.timestamp))]_vars

\* C27 as claimed: when create_notification returns, the user's list ends
\* with the notification it returns
C27_AsClaimed ==
  [][(ret'.op = "create" /\ ret' # ret) =>
       LET l == Collection(notifications', ret'.user_id)
       IN l # <<>> /\ l[Len(l)].id = ret'.value.id]_vars

\* a create made when the clock read 1 has dropped a notification that
\* expired at 0 or 1, kept one that never expires, and stored a notification
\* that was itself created expired
C27_Witness ==
  /\ ret.op = "create"
  /\ ret.at = MaxTime
  /\ ret.value.id = MaxId
  /\ C27_ExpiredAt(ret.value, ret.at)
  /\ Len(Collection(notifications, ret.user_id)) = 2
  /\ Collection(notifications, ret.user_id)[2] = ret.value
  /\ Collection(notifications, ret.user_id)[1].expires_at = NoTime
\* the fields of a notification that are set when it is created
C28_Created(n) ==
  <<n.id, n.user_id, n.title, n.message, n.level, n.category, n.priority,
    n.timestamp, n.expires_at>>

\* C28: whatever step the service takes (a create, a prune, a mark, a delete,
\* a listener added, removed or run, a create resumed), a notification that
\* is stored before and after it has the same id, user_id, title, message,
\* level, category, priority, timestamp and expires_at and is under the same
\* user; if it was read it is unchanged, and if it changes at all it goes
\* from unread with no read_at to read with the clock as read_at; a
\* notification that the step adds to the store is unread and has no read_at.
C28_OnlyReadChanges ==
  [][/\ \A u \in DOMAIN notifications, v \in DOMAIN notifications' :
          \A n \in Range(notifications[u]), m \in Range(notifications'[v]) :
            m.id = n.id =>
              /\ u = v
              /\ C28_Created(m) = C28_Created(n)
              /\ n.read => m = n
              /\ m # n => /\ ~n.read /\ n.read_at = NoTime
                          /\ m.read /\ m.read_at = isoformat(now)
     /\ \A m \in Stored' :
          m.id \notin StoredIds => ~m.read /\ m.read_at = NoTime]_vars

\* a create has just returned its notification, stored and unread, while an
\* older notification is stored read and a listener is registered
C28_Witness ==
  /\ ret.op = "create"
  /\ ret.value.id = MaxDispatchId
  /\ \E u \in DOMAIN listeners : listeners[u] # <<>>
  /\ \E n \in Stored : n.read /\ n.read_at # NoTime /\ n.id < ret.value.id
  /\ ret.value \in Stored /\ ~ret.value.read
\* C29: a create_notification with no title and no category returns a
\* notification whose category is "system" and whose title is made of the
\* title of that category and the title of its level ("System Information"
\* for the level info).
C29_TitleAgreesWithCategory ==
  [][\A level \in ReadCalls.levels :
       create_notification(1, "m", level, NoTitle, None, "MEDIUM", NoTime)
       => /\ ret'.op = "create"
          /\ ret'.value.category = "system"
          /\ ret'.value.title =
               <<C19_CategoryTitle(ret'.value.category), C19_LevelTitle(level)>>
          /\ level = "info" => ret'.value.title = <<"System", "Information">>]_vars
\* C30: in every state, with creates and the creates of a broadcast running
\* in any order, also for a broadcast that names a user twice, every
\* notification in the list kept under a user has that user as user_id, the
\* ids in each list are strictly increasing, and no id is in the lists of two
\* users: each id is in the store at most once.
C30_StoreShape ==
  /\ \A u \in DOMAIN notifications :
       LET l == notifications[u]
       IN /\ \A i \in 1..Len(l) : l[i].user_id = u
          /\ \A i, j \in 1..Len(l) : i < j => l[i].id < l[j].id
  /\ \A u, v \in DOMAIN notifications :
       u # v => \A n \in Range(notifications[u]), m \in Range(notifications[v]) :
                  n.id # m.id

\* a broadcast that named user 1 twice has stored two notifications for
\* user 1, after a create for user 2 that ran before it or between its two
\* creates
C30_Witness ==
  /\ Len(broadcast.tasks) = 2
  /\ \A i \in 1..2 : /\ broadcast.tasks[i].user_id = 1
                     /\ broadcast.tasks[i].state = "ran"
                     /\ \E n \in Range(Collection(notifications, 1)) :
                          n.id = broadcast.tasks[i].id
  /\ broadcast.tasks[1].id # broadcast.tasks[2].id
  /\ Collection(notifications, 2) # <<>>
====
